---------------------------- MODULE Spec2Model ----------------------------
(***************************************************************************)
(* A model of file_backup_daemon.py: the polling loop of main(), the       *)
(* recursive enumerator rec_file_iter(), the copy rsync_files() and the    *)
(* start-up validation of the __main__ block.                              *)
(*                                                                         *)
(* Path names are sequences of one-character strings, so that joining,     *)
(* splitting, sorting and regular-expression matching are computed as the  *)
(* code computes them.  Times (mtimes and the wall clock) are counted in   *)
(* ticks, TicksPerSecond ticks to the second, so that the rounding of      *)
(* f'{change_time:.0f}' is visible.                                        *)
(***************************************************************************)
EXTENDS Integers, Sequences, FiniteSets, TLC

---------------------------------------------------------------------------
(* Bounds of the model *)

\* the largest mtime / wall-clock value, in ticks
MaxTime == 3
\* the resolution of the clock: ticks per second
TicksPerSecond == 3
\* the number of polling cycles explored
MaxCycles == 2
\* the number of external modifications of watched files explored
MaxTouch == 1

---------------------------------------------------------------------------
(* Strings *)

\* the code point of a character (the order str.__lt__ sorts by)
Ord(c) ==
    CASE c = "$" -> 36
      [] c = "." -> 46
      [] c = "/" -> 47
      [] c = "0" -> 48 [] c = "1" -> 49 [] c = "2" -> 50 [] c = "3" -> 51
      [] c = "4" -> 52 [] c = "5" -> 53 [] c = "6" -> 54 [] c = "7" -> 55
      [] c = "8" -> 56 [] c = "9" -> 57
      [] c = "_" -> 95
      [] c = "a" -> 97 [] c = "b" -> 98 [] c = "e" -> 101 [] c = "k" -> 107
      [] c = "m" -> 109 [] c = "p" -> 112 [] c = "t" -> 116 [] c = "x" -> 120
      [] OTHER -> 0

\* s < t for Python strings: lexicographic by code point, a proper prefix first
RECURSIVE StrLess(_, _)
StrLess(s, t) ==
    IF s = <<>> THEN t # <<>>
    ELSE IF t = <<>> THEN FALSE
    ELSE IF Ord(Head(s)) < Ord(Head(t)) THEN TRUE
    ELSE IF Ord(Head(s)) > Ord(Head(t)) THEN FALSE
    ELSE StrLess(Tail(s), Tail(t))

\* s[n:] of Python (n counted from 0)
SliceFrom(s, n) == SubSeq(s, n + 1, Len(s))

\* s.rfind(c), counted from 1; 0 when c does not occur
RFind(s, c) ==
    LET hits == {i \in 1..Len(s) : s[i] = c}
    IN  IF hits = {} THEN 0 ELSE CHOOSE i \in hits : \A j \in hits : j <= i

\* os.path.join(a, b) of posixpath
join_path(a, b) ==
    IF b # <<>> /\ Head(b) = "/" THEN b
    ELSE IF a = <<>> \/ a[Len(a)] = "/" THEN a \o b
    ELSE a \o <<"/">> \o b

\* os.path.dirname(p) of posixpath: the head up to the last slash, trailing
\* slashes stripped unless the head is all slashes
RECURSIVE StripSlashes(_)
StripSlashes(s) ==
    IF s # <<>> /\ s[Len(s)] = "/" THEN StripSlashes(SubSeq(s, 1, Len(s) - 1))
    ELSE s

dirname(p) ==
    LET i    == RFind(p, "/")
        head == SubSeq(p, 1, i)
    IN  IF head # <<>> /\ StripSlashes(head) # <<>> THEN StripSlashes(head)
        ELSE head

\* os.path.basename(p)
basename(p) == SliceFrom(p, RFind(p, "/"))

\* os.path.splitext(p): <<stem, extension>>; the extension starts at the last
\* dot of the last component unless that component has only leading dots
splitext(p) ==
    LET sepIndex == RFind(p, "/")
        dotIndex == RFind(p, ".")
    IN  IF dotIndex > sepIndex
           /\ \E k \in (sepIndex + 1)..(dotIndex - 1) : p[k] # "."
        THEN <<SubSeq(p, 1, dotIndex - 1), SubSeq(p, dotIndex, Len(p))>>
        ELSE <<p, <<>> >>

\* the decimal digits of a natural number
DigitChars == <<"0", "1", "2", "3", "4", "5", "6", "7", "8", "9">>

RECURSIVE Digits(_)
Digits(n) ==
    IF n < 10 THEN <<DigitChars[n + 1]>>
    ELSE Digits(n \div 10) \o <<DigitChars[(n % 10) + 1]>>

\* f'{change_time:.0f}': the time in seconds rounded to the nearest integer,
\* a tie going to the even one
Format0f(t) ==
    LET q == t \div TicksPerSecond
        r == t % TicksPerSecond
    IN  Digits(IF 2 * r < TicksPerSecond THEN q
               ELSE IF 2 * r > TicksPerSecond THEN q + 1
               ELSE IF q % 2 = 0 THEN q ELSE q + 1)

---------------------------------------------------------------------------
(* Regular expressions of --exclude *)

\* re_compile of one pattern: its tokens.  "\c" is the literal c, "." any
\* character, "$" the end of the string, any other character itself
RECURSIVE re_compile(_)
re_compile(p) ==
    IF p = <<>> THEN <<>>
    ELSE IF Head(p) = "\\" /\ Len(p) >= 2
         THEN <<[t |-> "lit", c |-> p[2]]>> \o re_compile(SliceFrom(p, 2))
    ELSE IF Head(p) = "." THEN <<[t |-> "any", c |-> "."]>> \o re_compile(Tail(p))
    ELSE IF Head(p) = "$" THEN <<[t |-> "end", c |-> "$"]>> \o re_compile(Tail(p))
    ELSE <<[t |-> "lit", c |-> Head(p)]>> \o re_compile(Tail(p))

\* the tokens match the string s from position i (counted from 1) on
RECURSIVE MatchAt(_, _, _)
MatchAt(toks, s, i) ==
    IF toks = <<>> THEN TRUE
    ELSE LET k == Head(toks)
         IN  CASE k.t = "end" -> i = Len(s) + 1 /\ MatchAt(Tail(toks), s, i)
               [] k.t = "any" -> i <= Len(s) /\ MatchAt(Tail(toks), s, i + 1)
               [] OTHER       -> i <= Len(s) /\ s[i] = k.c
                                 /\ MatchAt(Tail(toks), s, i + 1)

\* re.match(re_compile('|'.join(f'({pattern})' ...)), file_name): some
\* alternative matches at the START of the name
exclude_match(patterns, file_name) ==
    \E n \in 1..Len(patterns) : MatchAt(re_compile(patterns[n]), file_name, 1)

\* filtering_rule(file_name) of the __main__ block
filtering_rule(patterns, file_name) ==
    IF patterns # <<>> THEN ~exclude_match(patterns, file_name) ELSE TRUE

---------------------------------------------------------------------------
(* The watched tree and the configurations explored *)

X_TMP  == <<"x", ".", "t", "m", "p">>
AB_TXT == <<"a", "/", "b", "/", "x", ".", "t", "x", "t">>

\* the watched tree.  Directories, relative to the root ('' is the root): e
\* holds nothing and a holds only the directory b.  Regular files: x.tmp in
\* the root and a/b/x.txt
SrcDirs == { <<>>, <<"a">>, <<"a", "/", "b">>, <<"e">> }

SrcFiles == { X_TMP, AB_TXT }

\* the --exclude patterns  \.tmp$  and  x\.tm
PAT_TMP_END == <<"\\", ".", "t", "m", "p", "$">>
PAT_X_TM    == <<"x", "\\", ".", "t", "m">>

\* abspath(backup_dir)
backup_dir == <<"/", "b", "k">>

\* _bdir_len_p1
bdir_len_p1 == Len(backup_dir) + 1

\* one command line and the file system it is started in: -o given or not,
\* --rewrite_log, --recursive, --exclude; backup_exists: the backup directory
\* is there already; same_dir: both positional arguments name one location;
\* log_prior: the log file has content
Cfg(rec, excl, logf, rewrite, bexists, same, prior) ==
    [recursive |-> rec, exclude_patterns |-> excl, log_file |-> logf,
     rewrite_log |-> rewrite, backup_exists |-> bexists, same_dir |-> same,
     log_prior |-> prior]

\* the invocations explored: four that reach the loop, four that are refused
Configs ==
    { Cfg(FALSE, <<>>,            "devnull", FALSE, FALSE, FALSE, FALSE),
      Cfg(FALSE, <<PAT_TMP_END>>, "file",    FALSE, FALSE, FALSE, TRUE),
      Cfg(TRUE,  <<PAT_X_TM>>,    "file",    TRUE,  FALSE, FALSE, TRUE),
      Cfg(TRUE,  <<>>,            "file",    FALSE, FALSE, FALSE, FALSE),
      Cfg(FALSE, <<>>,            "file",    FALSE, TRUE,  FALSE, TRUE),
      Cfg(TRUE,  <<>>,            "file",    TRUE,  TRUE,  FALSE, TRUE),
      Cfg(FALSE, <<>>,            "file",    FALSE, FALSE, TRUE,  FALSE),
      Cfg(FALSE, <<>>,            "devnull", TRUE,  FALSE, FALSE, FALSE) }

---------------------------------------------------------------------------
(* State *)

VARIABLES
    cfg,               \* the command line and the file system at start
    fs,                \* the watched tree, and where the backup root lies
    pc,                \* where the daemon is
    err,               \* the exception that ended it ("" while it runs)
    mtime,             \* getmtime of every watched file
    touches,           \* external modifications made so far
    clock,             \* the latest wall-clock value time() returned
    cycles,            \* polling cycles completed
    last_change_time,  \* the defaultdict(int) of main()
    walkList,          \* what is left of sorted(walk('.'))
    pending,           \* candidates of the enumerator not yet handled
    cur,               \* the copy in progress
    backupDirs,        \* directories under the backup root -> whose stat they carry
    backupFiles,       \* files under the backup root -> what was copied there
    logOpen,           \* the log file has been opened by this invocation
    logFile,           \* the lines of the log file on disk
    logBuf,            \* lines written to the log object, not yet flushed
    events,            \* history: the calls of rsync_files that returned
    decision,          \* history: the last comparison of line 92
    seen,              \* history: the mtime last read for each file
    statCopies,        \* history: copystat calls made onto each backup directory
    yielded,           \* history: the candidates of each cycle, in order
    updates            \* history: executions of line 104

vars == <<cfg, fs, pc, err, mtime, touches, clock, cycles, last_change_time,
          walkList, pending, cur, backupDirs, backupFiles, logOpen, logFile,
          logBuf, events, decision, seen, statCopies, yielded, updates>>

NoCopy == [file |-> <<>>, change_time |-> 0, backup_file |-> <<>>,
           time_stamp |-> 0, attempts |-> 0]

NoDecision == [file |-> <<>>, change_time |-> 0, last |-> 0, backed |-> 0,
               prev |-> 0, cycle |-> 0, triggered |-> FALSE]

\* the watched tree an invocation finds: its folders and files, relative to
\* the watched root, and whether the backup directory is given as a path
\* inside the watched root (the watched root is then "/", the parent of
\* backup_dir)
Tree(dirs, files, nested) == [dirs |-> dirs, files |-> files, nested |-> nested]

\* a path under the backup root, relative to the watched root "/"
RelToRoot(p) == SliceFrom(p, 1)

\* a path relative to the watched root "/", made absolute
AbsFromRoot(p) == <<"/">> \o p

\* the folders walk('.') finds: those of the tree and, when the backup root
\* is inside it, everything made under the backup root
WatchedDirs ==
    fs.dirs \cup (IF fs.nested THEN {RelToRoot(d) : d \in DOMAIN backupDirs}
                              ELSE {})

\* the files listdir() and walk('.') find
WatchedFiles ==
    fs.files \cup (IF fs.nested THEN {RelToRoot(f) : f \in DOMAIN backupFiles}
                               ELSE {})

\* line 91, getmtime(file): copy2 gives a backup file the mtime of its source
getmtime(file) ==
    IF file \in DOMAIN mtime THEN mtime[file]
    ELSE backupFiles[AbsFromRoot(file)].change_time

\* last_change_time[file] of a defaultdict(int): 0 for a missing key
Last(file) ==
    IF file \in DOMAIN last_change_time THEN last_change_time[file] ELSE 0

\* f with f[k] set to v, k added to the domain when missing
Put(f, k, v) == [x \in DOMAIN f \cup {k} |-> IF x = k THEN v ELSE f[x]]

\* os.path.isdir(p) for a path under the backup root
IsDir(p) == StripSlashes(p) \in DOMAIN backupDirs

\* the mtime observed at the last completed copy of file, 0 when none
RECURSIVE LastBacked(_, _)
LastBacked(evs, file) ==
    IF evs = <<>> THEN 0
    ELSE IF evs[Len(evs)].file = file THEN evs[Len(evs)].change_time
    ELSE LastBacked(SubSeq(evs, 1, Len(evs) - 1), file)

TypeOK ==
    /\ cfg \in Configs
    /\ fs.files \subseteq WatchedFiles /\ fs.dirs \subseteq WatchedDirs
    /\ pc \in {"startup", "main", "poll", "iter", "copy", "retry", "sleep",
               "aborted", "crashed", "interrupted"}
    /\ mtime \in [fs.files -> 1..MaxTime]
    /\ touches \in 0..MaxTouch
    /\ clock \in 1..MaxTime
    /\ cycles \in 0..MaxCycles
    /\ DOMAIN last_change_time \subseteq WatchedFiles
    /\ \A f \in DOMAIN last_change_time : last_change_time[f] \in 0..MaxTime

\* the state an invocation starts in, whatever the command line and the tree
Boot ==
    /\ pc = "startup"
    /\ err = ""
    /\ mtime \in [fs.files -> 1..MaxTime]
    /\ touches = 0
    /\ clock = 1
    /\ cycles = 0
    /\ last_change_time = <<>>
    /\ walkList = <<>>
    /\ pending = <<>>
    /\ cur = NoCopy
    /\ backupDirs = IF cfg.backup_exists THEN (backup_dir :> "fresh") ELSE <<>>
    /\ backupFiles = <<>>
    /\ logOpen = FALSE
    /\ logFile = IF cfg.log_prior THEN <<[kind |-> "old", src |-> <<>>,
                                           dst |-> <<>>]>>
                 ELSE <<>>
    /\ logBuf = <<>>
    /\ events = <<>>
    /\ decision = NoDecision
    /\ seen = [f \in fs.files |-> 0]
    /\ statCopies = <<>>
    /\ yielded = <<>>
    /\ updates = 0

Init ==
    /\ cfg \in Configs
    /\ fs = Tree(SrcDirs, SrcFiles, FALSE)
    /\ Boot

---------------------------------------------------------------------------
(* Log lines *)

Old    == [kind |-> "old", src |-> <<>>, dst |-> <<>>]
Header == [kind |-> "header", src |-> <<>>, dst |-> backup_dir]
Blank  == [kind |-> "blank", src |-> <<>>, dst |-> <<>>]
Record(file, backup_file) ==
    [kind |-> "record", src |-> file, dst |-> SliceFrom(backup_file, bdir_len_p1)]

\* what the log file holds once the buffer has been written out; writes to
\* os.devnull leave nothing
Flushed == IF cfg.log_file = "devnull" THEN logFile ELSE logFile \o logBuf

\* (mutant) the process ends without the buffered lines being written out
CloseLogNoFlush ==
    /\ logFile' = logFile
    /\ logBuf' = <<>>
    /\ logOpen' = FALSE

\* leaving the with-block of line 84 by an exception closes the log, which
\* writes the buffered lines out
CloseLog ==
    /\ logFile' = (IF logOpen THEN Flushed ELSE logFile)
    /\ logBuf' = <<>>
    /\ logOpen' = FALSE

---------------------------------------------------------------------------
(* Start-up: the __main__ block and the head of main() *)

\* (mutant) makedirs(backup_dir, exist_ok=True)
MakedirsExistOk == FALSE

\* line 155: makedirs(backup_dir) raises FileExistsError
MakedirsRaises == backup_dir \in DOMAIN backupDirs

\* lines 151-160: the three configuration errors, in the order of the code
Startup ==
    /\ pc = "startup"
    /\ IF cfg.rewrite_log /\ cfg.log_file = "devnull"
       THEN /\ pc' = "aborted" /\ err' = "TypeError"
            /\ UNCHANGED backupDirs
       ELSE IF MakedirsRaises
       THEN /\ pc' = "aborted" /\ err' = "FileExistsError"
            /\ UNCHANGED backupDirs
       ELSE /\ backupDirs' = Put(backupDirs, backup_dir, "fresh")
            /\ IF cfg.same_dir
               THEN pc' = "aborted" /\ err' = "ValueError"
               ELSE pc' = "main" /\ err' = ""
    /\ UNCHANGED <<cfg, fs, mtime, touches, clock, cycles, last_change_time,
                   walkList, pending, cur, backupFiles, logOpen, logFile,
                   logBuf, events, decision, seen>>
    /\ UNCHANGED <<statCopies, yielded, updates>>

\* lines 84-88: open the log ('w' truncates), a blank line when the file has
\* content, the header line
OpenLog ==
    /\ pc = "main"
    /\ LET onDisk == IF cfg.rewrite_log THEN <<>> ELSE logFile
       IN  /\ logFile' = onDisk
           /\ logBuf' = (IF Len(onDisk) > 0 THEN <<Blank>> ELSE <<>>)
                        \o <<Header>>
    /\ logOpen' = TRUE
    /\ pc' = "poll"
    /\ UNCHANGED <<cfg, fs, err, mtime, touches, clock, cycles, last_change_time,
                   walkList, pending, cur, backupDirs, backupFiles, events,
                   decision, seen>>
    /\ UNCHANGED <<statCopies, yielded, updates>>

---------------------------------------------------------------------------
(* The enumerator *)

\* the orders in which the file system may list the members of S
Perms(S) ==
    {q \in [1..Cardinality(S) -> S] :
        \A i, j \in 1..Cardinality(S) : q[i] = q[j] => i = j}

\* './some_name' as walk('.') names a folder
WalkName(d) == IF d = <<>> THEN <<".">> ELSE <<".", "/">> \o d

\* (mutant) sorted(..., reverse=True)
RECURSIVE SortWalkReversed(_)
SortWalkReversed(S) ==
    IF S = {} THEN <<>>
    ELSE LET m == CHOOSE x \in S :
                      \A y \in S \ {x} : StrLess(y.folder, x.folder)
         IN  <<m>> \o SortWalkReversed(S \ {m})

\* sorted(...) of the walk tuples: by folder name, which is unique
RECURSIVE SortWalk(_)
SortWalk(S) ==
    IF S = {} THEN <<>>
    ELSE LET m == CHOOSE x \in S :
                      \A y \in S \ {x} : StrLess(x.folder, y.folder)
         IN  <<m>> \o SortWalk(S \ {m})

\* walk('.'): one tuple per directory, with the names of the files in it.
\* The order of the names is the order of the listing; it is not looked at
\* before the folder is visited, and is drawn there
walk ==
    { [folder |-> WalkName(d),
       files  |-> {basename(f) : f \in {g \in WatchedFiles : dirname(g) = d}}]
      : d \in WatchedDirs }

\* line 90, file_getter(): the listing is taken when the loop starts.
\* Recursive: sorted(walk('.')) (line 24).  Flat: listdir() filtered by isfile
\* and the filtering rule (lines 78-82).
BeginCycle ==
    /\ pc = "poll"
    /\ IF cfg.recursive
       THEN /\ walkList' = SortWalk(walk)
            /\ pending' = <<>>
       ELSE \E listing \in Perms({e \in WatchedFiles \cup WatchedDirs :
                                     e # <<>> /\ dirname(e) = <<>>}) :
               /\ pending' = SelectSeq(listing, LAMBDA n :
                                 n \in WatchedFiles
                                 /\ filtering_rule(cfg.exclude_patterns, n))
               /\ walkList' = <<>>
    /\ yielded' = Append(yielded, <<>>)
    /\ pc' = "iter"
    /\ UNCHANGED <<cfg, fs, err, mtime, touches, clock, cycles, last_change_time,
                   cur, backupDirs, backupFiles, logOpen, logFile, logBuf,
                   events, decision, seen>>
    /\ UNCHANGED <<statCopies, updates>>

\* the copystat calls made so far onto the backup-side directory d
StatCount(d) == IF d \in DOMAIN statCopies THEN statCopies[d] ELSE 0

\* os.mkdir(p) succeeds when the parent is a directory and nothing is at p
MkdirOK(p) ==
    /\ IsDir(dirname(StripSlashes(p)))
    /\ ~IsDir(p)
    /\ StripSlashes(p) \notin DOMAIN backupFiles

\* (mutant) the test is made on the backup root, not on dir_to_save
NeedsMkdirRoot(dir_to_save) == ~IsDir(backup_dir)

\* (mutant) the enumerator makes no directory
NeedsMkdirNever(dir_to_save) == FALSE

\* line 27: if not isdir(dir_to_save)
NeedsMkdir(dir_to_save) == ~IsDir(dir_to_save)

\* lines 25-30: the next folder of the walk; its backup-side directory is
\* made, with the folder's stat, when it is not there
VisitFolder ==
    /\ pc = "iter" /\ pending = <<>> /\ walkList # <<>>
    /\ \E file_names \in Perms(Head(walkList).files) :
       LET folder_name == SliceFrom(Head(walkList).folder, 2)
           dir_to_save == join_path(backup_dir, folder_name)
           names       == SelectSeq(file_names, LAMBDA n :
                               filtering_rule(cfg.exclude_patterns, n))
       IN  IF ~NeedsMkdir(dir_to_save)
           THEN /\ pending' = [i \in 1..Len(names) |->
                                  join_path(folder_name, names[i])]
                /\ walkList' = Tail(walkList)
                /\ UNCHANGED <<backupDirs, statCopies, pc, err, logOpen,
                               logFile, logBuf>>
           ELSE IF MkdirOK(dir_to_save) /\ folder_name # <<>>
           THEN /\ backupDirs' = Put(backupDirs, StripSlashes(dir_to_save),
                                     folder_name)
                /\ statCopies' = Put(statCopies, StripSlashes(dir_to_save), 1)
                /\ pending' = [i \in 1..Len(names) |->
                                  join_path(folder_name, names[i])]
                /\ walkList' = Tail(walkList)
                /\ UNCHANGED <<pc, err, logOpen, logFile, logBuf>>
           ELSE /\ pc' = "crashed" /\ err' = "OSError"
                /\ CloseLog
                /\ UNCHANGED <<backupDirs, statCopies, pending, walkList>>
    /\ UNCHANGED <<cfg, fs, mtime, touches, clock, cycles, last_change_time, cur,
                   backupFiles, events, decision, seen>>
    /\ UNCHANGED <<yielded, updates>>

\* the enumerator is exhausted: line 32 (recursive), then lines 106-107
EndCycle ==
    /\ pc = "iter" /\ pending = <<>> /\ walkList = <<>>
    /\ backupDirs' = IF cfg.recursive
                     THEN Put(backupDirs, backup_dir, <<".">>)
                     ELSE backupDirs
    /\ statCopies' = IF cfg.recursive
                     THEN Put(statCopies, backup_dir, StatCount(backup_dir) + 1)
                     ELSE statCopies
    /\ logFile' = Flushed
    /\ logBuf' = <<>>
    /\ cycles' = cycles + 1
    /\ pc' = "sleep"
    /\ UNCHANGED <<cfg, fs, err, mtime, touches, clock, last_change_time,
                   walkList, pending, cur, backupFiles, logOpen, events,
                   decision, seen>>
    /\ UNCHANGED <<yielded, updates>>

\* sleep(refresh_rate) returns
Wake ==
    /\ pc = "sleep"
    /\ cycles < MaxCycles
    /\ pc' = "poll"
    /\ UNCHANGED <<cfg, fs, err, mtime, touches, clock, cycles, last_change_time,
                   walkList, pending, cur, backupDirs, backupFiles, logOpen,
                   logFile, logBuf, events, decision, seen>>
    /\ UNCHANGED <<statCopies, yielded, updates>>

---------------------------------------------------------------------------
(* The executor *)

\* (mutant) the comparison is not strict
ChangedOrEqual(change_time, last) == change_time >= last

\* line 92: change_time > last_change_time[file]
Changed(change_time, last) == change_time > last

\* (mutant) the backup is named after the base name alone
BackupNameFlat(file, change_time) ==
    LET stem      == basename(splitext(file)[1])
        extension == splitext(file)[2]
    IN  join_path(backup_dir,
                  stem \o <<"_">> \o Format0f(change_time) \o extension)

\* lines 93-97: the path of the backup of file as observed at change_time
BackupName(file, change_time) ==
    LET stem      == splitext(file)[1]
        extension == splitext(file)[2]
    IN  join_path(backup_dir,
                  stem \o <<"_">> \o Format0f(change_time) \o extension)

\* the mtime last read for file, 0 before the first reading
Seen(file) == IF file \in DOMAIN seen THEN seen[file] ELSE 0

\* lines 91-98: read the mtime of the next candidate and compare it; a newer
\* one fixes the backup name and the capture time (the clock has moved on by
\* any amount since it was last read), an equal or older one is passed over
CheckFile ==
    /\ pc = "iter" /\ pending # <<>>
    /\ LET file        == Head(pending)
           change_time == getmtime(file)
           last        == Last(file)
           d == [file |-> file, change_time |-> change_time, last |-> last,
                 backed |-> LastBacked(events, file), prev |-> Seen(file),
                 cycle |-> cycles, triggered |-> Changed(change_time, last)]
       IN  /\ last_change_time' = Put(last_change_time, file, last)
           /\ seen' = Put(seen, file, change_time)
           /\ yielded' = [yielded EXCEPT ![Len(yielded)] = Append(@, file)]
           /\ decision' = d
           /\ IF Changed(change_time, last)
              THEN /\ \E t \in clock..MaxTime :
                        /\ clock' = t
                        /\ cur' = [file |-> file, change_time |-> change_time,
                                   backup_file |-> BackupName(file, change_time),
                                   time_stamp |-> t, attempts |-> 0]
                   /\ pc' = "copy"
                   /\ UNCHANGED pending
              ELSE /\ pending' = Tail(pending)
                   /\ UNCHANGED <<clock, cur, pc>>
    /\ UNCHANGED <<cfg, fs, err, mtime, touches, cycles, walkList, backupDirs,
                   backupFiles, logOpen, logFile, logBuf, events>>
    /\ UNCHANGED <<statCopies, updates>>

\* line 91 raises: the file cannot be stat'ed
StatError ==
    /\ pc = "iter" /\ pending # <<>>
    /\ pc' = "crashed" /\ err' = "OSError"
    /\ CloseLog
    /\ UNCHANGED <<cfg, fs, mtime, touches, clock, cycles, last_change_time,
                   walkList, pending, cur, backupDirs, backupFiles, events,
                   decision, seen>>
    /\ UNCHANGED <<statCopies, yielded, updates>>

\* shutil.copy2(src, dst) writes dst, or dst/basename(src) when dst is a
\* directory
Copy2Target(src, dst) ==
    IF IsDir(dst) THEN join_path(dst, basename(src)) ELSE dst

\* line 45-47: the folder whose stat is copied
SrcFolder(src) == IF dirname(src) = <<>> THEN <<".">> ELSE dirname(src)

\* (mutant) the stat of the folder is put on the backup root
StatTargetRoot(dest_file) == backup_dir

\* line 48: the directory that gets the stat of the folder
StatTarget(dest_file) == dirname(dest_file)

\* one call of rsync_files(cur.file, cur.backup_file), lines 44-48, that got as
\* far as progress says: "none" (copy2 wrote nothing), "partial" (copy2 was
\* cut short), "full" (copy2 returned; copystat of the folder did not), "done"
Rsync(progress) ==
    LET target == Copy2Target(cur.file, cur.backup_file)
        made   == [src |-> cur.file, change_time |-> cur.change_time,
                   full |-> progress # "partial"]
    IN  /\ progress # "none" => IsDir(dirname(target))
        /\ backupFiles' = IF progress = "none" THEN backupFiles
                          ELSE Put(backupFiles, target, made)
        /\ backupDirs' = IF progress = "done"
                         THEN Put(backupDirs, StatTarget(cur.backup_file),
                                  SrcFolder(cur.file))
                         ELSE backupDirs
        /\ statCopies' = IF progress = "done"
                         THEN Put(statCopies, StatTarget(cur.backup_file),
                                  StatCount(StatTarget(cur.backup_file)) + 1)
                         ELSE statCopies
        /\ events' = IF progress = "done"
                     THEN Append(events, [file |-> cur.file,
                                          change_time |-> cur.change_time,
                                          path |-> target])
                     ELSE events
        /\ cur' = [cur EXCEPT !.attempts = @ + 1]

Partway == {"none", "partial", "full"}

\* (mutant) the mtime of the file is recorded
RecordedMtime(copy) == copy.change_time

\* line 104: the value recorded for the file, the time_stamp of line 98
Recorded(copy) == copy.time_stamp

\* lines 100, 104, 105: the copy returns; the capture time is recorded and one
\* record is written
CopyOK ==
    /\ pc = "copy"
    /\ Rsync("done")
    /\ last_change_time' = Put(last_change_time, cur.file, Recorded(cur))
    /\ updates' = updates + 1
    /\ logBuf' = Append(logBuf, Record(cur.file, cur.backup_file))
    /\ pending' = Tail(pending)
    /\ pc' = "iter"
    /\ UNCHANGED <<cfg, fs, err, mtime, touches, clock, cycles, walkList, logOpen,
                   logFile, decision, seen>>
    /\ UNCHANGED <<yielded>>

\* (mutant) the record is written before the copy is made: an interrupted
\* copy leaves its record in the log
CopyInterruptedLogged ==
    /\ pc = "copy"
    /\ \E progress \in Partway : Rsync(progress)
    /\ logBuf' = Append(logBuf, Record(cur.file, cur.backup_file))
    /\ pc' = "retry"
    /\ UNCHANGED <<cfg, fs, err, mtime, touches, clock, cycles,
                   last_change_time, walkList, pending, logOpen, logFile,
                   decision, seen, yielded, updates>>

\* line 101: KeyboardInterrupt arrives during the copy
CopyInterrupted ==
    /\ pc = "copy"
    /\ \E progress \in Partway : Rsync(progress)
    /\ pc' = "retry"
    /\ UNCHANGED <<cfg, fs, err, mtime, touches, clock, cycles, last_change_time,
                   walkList, pending, logOpen, logFile, logBuf, decision, seen>>
    /\ UNCHANGED <<yielded, updates>>

\* line 100 raises anything else: it is not caught
CopyError ==
    /\ pc = "copy"
    /\ \E progress \in Partway : Rsync(progress)
    /\ pc' = "crashed" /\ err' = "OSError"
    /\ CloseLog
    /\ UNCHANGED <<cfg, fs, mtime, touches, clock, cycles, last_change_time,
                   walkList, pending, decision, seen>>
    /\ UNCHANGED <<yielded, updates>>

\* lines 102-103: the second copy returns and the interruption is re-raised
RetryOK ==
    /\ pc = "retry"
    /\ Rsync("done")
    /\ pc' = "interrupted" /\ err' = "KeyboardInterrupt"
    /\ CloseLog
    /\ UNCHANGED <<cfg, fs, mtime, touches, clock, cycles, last_change_time,
                   walkList, pending, decision, seen>>
    /\ UNCHANGED <<yielded, updates>>

\* (mutant) the copy is tried again for as long as it is interrupted
RetryInterruptedAgain ==
    /\ pc = "retry"
    /\ \E progress \in Partway : Rsync(progress)
    /\ pc' = "retry"
    /\ UNCHANGED <<cfg, fs, err, mtime, touches, clock, cycles, last_change_time,
                   walkList, pending, logOpen, logFile, logBuf, decision, seen>>
    /\ UNCHANGED <<yielded, updates>>

\* line 102 is interrupted again: nothing catches it
RetryInterrupted ==
    /\ pc = "retry"
    /\ \E progress \in Partway : Rsync(progress)
    /\ pc' = "interrupted" /\ err' = "KeyboardInterrupt"
    /\ CloseLog
    /\ UNCHANGED <<cfg, fs, mtime, touches, clock, cycles, last_change_time,
                   walkList, pending, decision, seen>>
    /\ UNCHANGED <<yielded, updates>>

\* line 102 raises anything else
RetryError ==
    /\ pc = "retry"
    /\ \E progress \in Partway : Rsync(progress)
    /\ pc' = "crashed" /\ err' = "OSError"
    /\ CloseLog
    /\ UNCHANGED <<cfg, fs, mtime, touches, clock, cycles, last_change_time,
                   walkList, pending, decision, seen>>
    /\ UNCHANGED <<yielded, updates>>

\* KeyboardInterrupt anywhere else in the loop (enumeration, stat, sleep)
Interrupt ==
    /\ pc \in {"poll", "iter", "sleep"}
    /\ pc' = "interrupted" /\ err' = "KeyboardInterrupt"
    /\ CloseLog
    /\ UNCHANGED <<cfg, fs, mtime, touches, clock, cycles, last_change_time,
                   walkList, pending, cur, backupDirs, backupFiles, events,
                   decision, seen>>
    /\ UNCHANGED <<statCopies, yielded, updates>>

---------------------------------------------------------------------------
(* The environment *)

\* something outside the daemon writes a watched file, or sets its mtime.
\* The daemon looks at a file once per cycle (line 91), so a modification made
\* anywhere in a cycle is seen as one made before that cycle or before the
\* next: the model places it before a cycle
Touch ==
    /\ pc = "poll"
    /\ touches < MaxTouch
    /\ \E f \in DOMAIN mtime, m \in 1..MaxTime :
          /\ m # mtime[f]
          /\ mtime' = [mtime EXCEPT ![f] = m]
    /\ touches' = touches + 1
    /\ UNCHANGED <<cfg, fs, pc, err, clock, cycles, last_change_time, walkList,
                   pending, cur, backupDirs, backupFiles, logOpen, logFile,
                   logBuf, events, decision, seen>>
    /\ UNCHANGED <<statCopies, yielded, updates>>

---------------------------------------------------------------------------

Next ==
    \/ Startup
    \/ OpenLog
    \/ BeginCycle
    \/ VisitFolder
    \/ CheckFile
    \/ StatError
    \/ CopyOK
    \/ CopyInterrupted
    \/ CopyError
    \/ RetryOK
    \/ RetryInterrupted
    \/ RetryError
    \/ EndCycle
    \/ Wake
    \/ Interrupt
    \/ Touch

Spec == Init /\ [][Next]_vars

---------------------------------------------------------------------------
(* The daemon left alone: nothing interrupts it, no call fails, nothing
   outside it writes to the watched tree.  The invocations are the plain
   ones, the trees vary: two files in one folder, a folder whose name extends
   the name of another, a deeper chain, and a backup directory given as a
   path inside the watched directory, which line 159 accepts *)

X_TXT == <<"x", ".", "t", "x", "t">>
A_DOT == <<"a", ".", "b">>

Trees ==
    { Tree(SrcDirs, SrcFiles, FALSE),
      Tree(SrcDirs, SrcFiles \cup {X_TXT}, FALSE),
      Tree({<<>>, <<"a">>, A_DOT, <<"a", "/", "b">>, join_path(A_DOT, <<"e">>)},
           SrcFiles, FALSE),
      Tree({<<>>, <<"a">>, <<"a", "/", "b">>,
            join_path(<<"a", "/", "b">>, <<"e">>)}, SrcFiles, FALSE),
      Tree(SrcDirs, SrcFiles, TRUE) }

PlainConfigs ==
    { Cfg(FALSE, <<>>, "devnull", FALSE, FALSE, FALSE, FALSE),
      Cfg(TRUE,  <<>>, "file",    FALSE, FALSE, FALSE, FALSE) }

InitAlone ==
    /\ cfg \in PlainConfigs
    /\ fs \in Trees
    /\ Boot

NextAlone ==
    \/ Startup
    \/ OpenLog
    \/ BeginCycle
    \/ VisitFolder
    \/ CheckFile
    \/ CopyOK
    \/ EndCycle
    \/ Wake

SpecAlone == InitAlone /\ [][NextAlone]_vars

---------------------------------------------------------------------------
(* Notions the properties below are stated with *)

\* the log file has been opened by this invocation
Opened == pc \notin {"startup", "main", "aborted"}

\* the lines the log file held before this invocation that are still there
PriorLines == IF cfg.log_prior /\ ~cfg.rewrite_log THEN 1 ELSE 0

\* the lines this invocation has written, flushed or not, less the blank
\* line that separates them from older ones
SessionLines ==
    LET all == SliceFrom(logFile, PriorLines) \o logBuf
    IN  IF all # <<>> /\ Head(all) = Blank THEN Tail(all) ELSE all

\* the lines of this invocation that are in the log file itself
SessionOnDisk ==
    LET all == SliceFrom(logFile, PriorLines)
    IN  IF all # <<>> /\ Head(all) = Blank THEN Tail(all) ELSE all

\* the records among some lines
RecordsOf(lines) == SelectSeq(lines, LAMBDA l : l.kind = "record")

\* one record for every copy that returned, in the order of the copies
RecordsOfEvents ==
    [i \in 1..Len(events) |-> Record(events[i].file, events[i].path)]

\* re.search: the pattern matches somewhere in the name
re_search(pattern, name) ==
    \E i \in 1..(Len(name) + 1) : MatchAt(re_compile(pattern), name, i)

\* the candidate the loop is about to look at
Candidate == Head(pending)

---------------------------------------------------------------------------
(* C1..C10 *)

\* C1 (as claimed): whenever a cycle reads, for a file, an mtime greater than
\* the mtime the file had at its previous backup (0: never backed up), that
\* cycle copies the file.
C1_ChangeDetectionComplete ==
    decision.change_time > decision.backed => decision.triggered

\* C2 (as claimed): a file whose mtime is the one read in the previous cycle
\* is not copied again, whatever that mtime is.
C2_Idempotence ==
    (decision # NoDecision /\ decision.prev = decision.change_time)
        => ~decision.triggered

\* C3: in every step that looks at a candidate, a copy is started if and only
\* if the mtime read is strictly greater than the value recorded for the
\* path (0 when none is recorded); and a copy is started in no other step.
C3_MonotonicTrigger ==
    [][ /\ (pc = "iter" /\ pending # <<>> /\ pc' \in {"iter", "copy"})
            => (pc' = "copy" <=> mtime[Candidate] > Last(Candidate))
        /\ (pc # "copy" /\ pc' = "copy")
            => /\ pc = "iter" /\ pending # <<>>
               /\ cur'.file = Candidate
               /\ mtime[Candidate] > Last(Candidate) ]_vars

\* C3, its case: a file copied before is looked at again with an mtime equal
\* to the recorded value, and passed over.
C3_Witness ==
    /\ events # <<>>
    /\ pc = "iter"
    /\ decision.last > 0
    /\ decision.change_time = decision.last
    /\ ~decision.triggered

\* C4 (as claimed): no copy writes a backup path that a copy of another
\* observed mtime wrote.
C4_NoOverwriting ==
    \A i, j \in 1..Len(events) :
        events[i].path = events[j].path
            => events[i].change_time = events[j].change_time

\* C5 (as claimed): a file whose base name is matched by a configured
\* pattern is never backed up.
C5_ExcludedNeverBackedUp ==
    \A i \in 1..Len(events), n \in 1..Len(cfg.exclude_patterns) :
        ~re_search(cfg.exclude_patterns[n], basename(events[i].file))

C7_LogFormat ==
    (Opened /\ cfg.log_file = "file")
        => /\ SessionLines # <<>>
           /\ Head(SessionLines) = Header
           /\ Tail(SessionLines) = RecordsOfEvents

\* C8: a copy is never tried more than twice; an interrupted copy is tried a
\* second time and is not left by an interruption before that; the second
\* try is of the same file to the same path and ends the daemon whatever its
\* outcome, by the interruption unless it fails otherwise; once interrupted
\* the daemon takes no step, so no further candidate is looked at.
C8_RetryOnce ==
    /\ [](cur.attempts <= 2 /\ (pc = "retry" => cur.attempts = 1))
    /\ [][ /\ pc = "copy" => pc' \in {"copy", "iter", "retry", "crashed"}
           /\ (pc = "copy" /\ pc' = "retry")
               => /\ cur'.attempts = 1
                  /\ cur'.file = cur.file /\ cur'.backup_file = cur.backup_file
                  /\ pending' = pending /\ last_change_time' = last_change_time
           /\ pc = "retry"
               => /\ pc' \in {"interrupted", "crashed"}
                  /\ pc' = "interrupted" => err' = "KeyboardInterrupt"
                  /\ cur'.attempts = 2
                  /\ cur'.file = cur.file /\ cur'.backup_file = cur.backup_file
                  /\ pending' = pending /\ walkList' = walkList
           /\ pc # "interrupted" ]_vars

\* C8, its case: the daemon has ended by the interruption after the second
\* try of a copy, with folders of the walk still unvisited.
C8_Witness ==
    /\ pc = "interrupted" /\ err = "KeyboardInterrupt"
    /\ cur.attempts = 2
    /\ walkList # <<>>

\* C9: a step in which a stat, a directory creation or a copy fails otherwise
\* than by interruption ends the daemon: it makes at most one try of the
\* copy, leaves the last-seen map as it was and writes no record; once
\* crashed the daemon takes no step; and the log file then holds a record
\* for every copy that had returned before.
C9_FailFast ==
    /\ []((pc = "crashed" /\ cfg.log_file = "file")
            => /\ logBuf = <<>>
               /\ RecordsOf(SessionOnDisk) = RecordsOfEvents)
    /\ [][ /\ (pc # "crashed" /\ pc' = "crashed")
               => /\ last_change_time' = last_change_time
                  /\ cur'.attempts <= cur.attempts + 1
                  /\ events' = events
                  /\ Len(RecordsOf(logFile' \o logBuf'))
                       <= Len(RecordsOf(logFile \o logBuf))
           /\ pc # "crashed" ]_vars

\* C9, its case: the copy of a second file has failed at its first try in
\* the cycle in which the first file was copied, and the daemon has ended
\* with the record of the first file in the log file.
C9_Witness ==
    /\ pc = "crashed" /\ cfg.log_file = "file"
    /\ cycles = 0
    /\ Len(events) = 1
    /\ cur.attempts = 1 /\ cur.file # events[1].file
    /\ Len(RecordsOf(SessionOnDisk)) = 1

\* C10: started with a backup directory that exists, the daemon never gets
\* past start-up: the log file is not opened and keeps its lines, nothing is
\* made under the backup directory, no cycle begins, and the error it ends
\* with is one of start-up.
C10_StartupValidation ==
    cfg.backup_exists
        => /\ pc \in {"startup", "aborted"}
           /\ pc = "aborted" => err = "FileExistsError"
           /\ ~logOpen /\ logBuf = <<>>
           /\ logFile = (IF cfg.log_prior THEN <<Old>> ELSE <<>>)
           /\ backupDirs = (backup_dir :> "fresh") /\ backupFiles = <<>>
           /\ cycles = 0 /\ events = <<>> /\ decision = NoDecision

\* C10, its case: the daemon was refused because the backup directory
\* exists, with a log file that has content.
C10_Witness ==
    /\ cfg.backup_exists /\ cfg.log_prior
    /\ pc = "aborted" /\ err = "FileExistsError"

---------------------------------------------------------------------------
(* C11..C19 *)

\* a relative path given by its parts: the folder, and the stem and the
\* extension of the base name
Parts(dir, stem, ext) == [dir |-> dir, stem |-> stem, ext |-> ext]

PathOfParts(p) ==
    (IF p.dir = <<>> THEN <<>> ELSE p.dir \o <<"/">>) \o p.stem \o p.ext

NamePool ==
    { Parts(<<>>, <<"x">>, <<".", "t", "m", "p">>),
      Parts(<<>>, <<"x">>, <<".", "t", "x", "t">>),
      Parts(<<"a">>, <<"x">>, <<".", "t", "x", "t">>),
      Parts(<<"a", "/", "b">>, <<"x">>, <<".", "t", "x", "t">>),
      Parts(<<"e">>, <<"x">>, <<".", "t", "x", "t">>),
      Parts(A_DOT, <<"x">>, <<>>),
      Parts(<<"e">>, <<".", "x">>, <<>>),
      Parts(<<"e">>, <<"x", ".", "t">>, <<".", "t", "x", "t">>) }

\* mtimes, in ticks: those of the model and some of two digits of seconds
TimePool == (1..MaxTime) \cup ((12 * TicksPerSecond)..(13 * TicksPerSecond))

\* the integer nearest to an mtime of M ticks, the even one of two
NearestInt(M) ==
    CHOOSE n \in 0..(M + 1) :
        LET away == IF n * TicksPerSecond > M THEN n * TicksPerSecond - M
                    ELSE M - n * TicksPerSecond
        IN  \/ 2 * away < TicksPerSecond
            \/ 2 * away = TicksPerSecond /\ n % 2 = 0

\* <backup root>/<dir>/<stem>_<M as an integer><ext>
ExpectedBackup(p, M) ==
    backup_dir \o <<"/">> \o (IF p.dir = <<>> THEN <<>> ELSE p.dir \o <<"/">>)
        \o p.stem \o <<"_">> \o Digits(NearestInt(M)) \o p.ext

\* the naming of lines 93-97 over the pool: the name is the claimed one, and
\* equal base names in different folders get different backup paths
NamingOverPool ==
    /\ \A p \in NamePool, M \in TimePool :
          BackupName(PathOfParts(p), M) = ExpectedBackup(p, M)
    /\ \A p, q \in NamePool, M, N \in TimePool :
          (p.stem = q.stem /\ p.ext = q.ext /\ p.dir # q.dir)
              => BackupName(PathOfParts(p), M) # BackupName(PathOfParts(q), N)

\* C11: every copy that returned wrote <backup root>/<dir>/<stem>_<M><ext>
\* for the file <dir>/<stem><ext> it copied and the mtime M it observed, M
\* written as the nearest integer; files of one base name in different
\* folders never get the same backup path; and the backup path of every
\* record of the log is that destination relative to the backup root.
C11_BackupNaming ==
    /\ NamingOverPool
    /\ \A i \in 1..Len(events) :
          \E p \in NamePool :
              /\ PathOfParts(p) = events[i].file
              /\ events[i].path = ExpectedBackup(p, events[i].change_time)
    /\ LET recs == RecordsOf(SessionLines)
       IN  \A k \in 1..Len(recs) :
              \E i \in 1..Len(events) :
                  /\ events[i].file = recs[k].src
                  /\ backup_dir \o <<"/">> \o recs[k].dst = events[i].path

\* C11, its case: the file a/b/x.txt, observed with an mtime that rounds to
\* 1, has been copied to /bk/a/b/x_1.txt and the record of it is in the log
\* file.
C11_Witness ==
    /\ \E i \in 1..Len(events) :
          /\ events[i].file = AB_TXT
          /\ events[i].path = backup_dir \o <<"/", "a", "/", "b", "/", "x", "_",
                                             "1", ".", "t", "x", "t">>
    /\ \E k \in 1..Len(logFile) :
          /\ logFile[k].kind = "record"
          /\ logFile[k].src = AB_TXT
          /\ logFile[k].dst = <<"a", "/", "b", "/", "x", "_", "1", ".", "t",
                                "x", "t">>

\* C12 (as claimed): whatever configuration start-up accepts, the daemon
\* creates, deletes and modifies nothing under the watched root: the folders
\* and files found there are those the tree held when the daemon started.
C12_SourceReadOnly ==
    /\ WatchedDirs = fs.dirs
    /\ WatchedFiles = fs.files

\* the backup-side directories the daemon has made or put a stat on
StatDirs == DOMAIN backupDirs \cup DOMAIN statCopies

\* C13 (as claimed): in recursive mode no backup-side directory of a
\* subdirectory gets the metadata of its source directory more than once.
C13_MirrorOnce ==
    cfg.recursive
        => \A d \in DOMAIN statCopies \ {backup_dir} : statCopies[d] <= 1

\* C13 (amended): the enumerator puts the metadata of a folder on its
\* backup-side directory only in the step that makes that directory, never on
\* one that is there; other than that, every call of rsync_files that returns
\* puts the metadata of the copied file's folder on the directory of the
\* destination once more, and the end of every recursive cycle puts the
\* metadata of the watched root on the backup root; nothing else does.
C13_MirrorOnceAmended ==
    [][ /\ \A d \in DOMAIN statCopies' :
              (statCopies' # statCopies /\ StatCount(d)' # StatCount(d))
                  => \/ /\ pc = "iter" /\ pending = <<>> /\ walkList # <<>>
                        /\ d \notin DOMAIN backupDirs
                        /\ d = StripSlashes(join_path(backup_dir,
                                   SliceFrom(Head(walkList).folder, 2)))
                        /\ StatCount(d)' = 1
                        /\ backupDirs'[d] = SliceFrom(Head(walkList).folder, 2)
                     \/ /\ pc \in {"copy", "retry"}
                        /\ Len(events') = Len(events) + 1
                        /\ d = dirname(cur.backup_file)
                        /\ StatCount(d)' = StatCount(d) + 1
                        /\ backupDirs'[d] = SrcFolder(cur.file)
                     \/ /\ pc = "iter" /\ pending = <<>> /\ walkList = <<>>
                        /\ cfg.recursive
                        /\ d = backup_dir
                        /\ StatCount(d)' = StatCount(d) + 1
                        /\ backupDirs'[d] = <<".">>
        /\ Len(events') = Len(events) + 1
              => LET d == dirname(cur.backup_file)
                 IN  /\ d \in DOMAIN statCopies'
                     /\ statCopies'[d] = StatCount(d) + 1
        /\ (cycles' = cycles + 1 /\ cfg.recursive)
              => StatCount(backup_dir)' = StatCount(backup_dir) + 1 ]_vars

\* C13, its case: in recursive mode the directory /bk/a/b, made by the
\* enumerator with the stat of a/b, has got that stat a second time from the
\* copy of a/b/x.txt.
C13_Witness ==
    /\ cfg.recursive
    /\ StatCount(<<"/", "b", "k", "/", "a", "/", "b">>) >= 2
    /\ \E i \in 1..Len(events) : events[i].file = AB_TXT

\* C14 (as claimed): in recursive mode, over a tree nothing writes to, any
\* two completed cycles yield the same candidates in the same order, in
\* whatever order the file system lists the entries of a directory.
C14_DeterministicTraversal ==
    (cfg.recursive /\ ~fs.nested)
        => \A i, j \in 1..cycles : yielded[i] = yielded[j]

\* p is the backup root or lies under it
UnderBackupRoot(p) ==
    \/ p = backup_dir
    \/ /\ Len(p) > Len(backup_dir) + 1
       /\ SubSeq(p, 1, Len(backup_dir) + 1) = backup_dir \o <<"/">>

\* C15: whenever a copy is attempted (the first try and the one retry), the
\* parent directory of its destination exists and is the backup root or
\* under it: in recursive mode it is the backup-side directory of the folder
\* of the file, in flat mode the backup root itself.
C15_DestinationParentExists ==
    pc \in {"copy", "retry"}
        => /\ IsDir(dirname(cur.backup_file))
           /\ UnderBackupRoot(dirname(cur.backup_file))
           /\ dirname(cur.backup_file)
                  = StripSlashes(join_path(backup_dir, dirname(cur.file)))
           /\ ~cfg.recursive => dirname(cur.backup_file) = backup_dir

\* C15, its case: in the first recursive cycle the copy of a/b/x.txt is
\* about to be attempted, into a directory two levels under the backup root.
C15_Witness ==
    /\ cfg.recursive /\ cycles = 0
    /\ pc = "copy"
    /\ cur.file = AB_TXT
    /\ cur.attempts = 0

\* the name walk('.') gives the parent of the folder it names w
ParentWalkName(w) == WalkName(dirname(SliceFrom(w, 2)))

\* C16: in the sorted walk every folder but the root comes after its parent;
\* when a folder is visited the backup-side directory of its parent is
\* there; and with nothing else failing the daemon never stops on a mkdir:
\* for every tree and every folder naming explored, the tree that grows
\* under a backup root inside the watched root included.
C16_ParentBeforeChild ==
    /\ [](pc # "crashed")
    /\ [][ /\ (pc = "poll" /\ pc' = "iter")
               => \A i \in 1..Len(walkList') :
                     walkList'[i].folder # <<".">>
                         => \E j \in 1..(i - 1) :
                               walkList'[j].folder
                                   = ParentWalkName(walkList'[i].folder)
           /\ (pc = "iter" /\ pending = <<>> /\ walkList # <<>>
                 /\ Head(walkList).folder # <<".">>)
               => IsDir(join_path(backup_dir,
                          dirname(SliceFrom(Head(walkList).folder, 2)))) ]_vars

\* C16, its case: a tree with the folders a, a.b, a/b and a.b/e has been
\* walked in recursive mode and the directory of a.b/e has been made.
C16_Witness ==
    /\ cfg.recursive
    /\ A_DOT \in fs.dirs
    /\ pc = "sleep"
    /\ backup_dir \o <<"/">> \o A_DOT \o <<"/", "e">> \in DOMAIN backupDirs
    /\ backup_dir \o <<"/", "a", "/", "b">> \in DOMAIN backupDirs

\* this step appends a record to the log
RecordAppended ==
    /\ Len(logBuf') = Len(logBuf) + 1
    /\ logBuf'[Len(logBuf')].kind = "record"

C18_LastSeenMonotonic ==
    [][ /\ clock' >= clock
        /\ \A f \in DOMAIN last_change_time :
              /\ f \in DOMAIN last_change_time'
              /\ last_change_time'[f] >= last_change_time[f]
        /\ \A f \in DOMAIN last_change_time' :
              Last(f)' # Last(f)
                  => /\ pc = "copy" /\ pc' = "iter"
                     /\ f = cur.file
                     /\ Len(events') = Len(events) + 1
                     /\ events'[Len(events')].file = f
                     /\ Last(f)' = cur.time_stamp
        /\ (pc # "copy" /\ pc' = "copy")
              => /\ cur'.time_stamp = clock'
                 /\ cur'.time_stamp >= Last(cur'.file) ]_vars

\* C18, its case: x.tmp has been copied twice, its value has been raised
\* from one capture time to a later one, and the value of a/b/x.txt, copied
\* in between, is the capture time of its own copy.
C18_Witness ==
    /\ Len(events) = 3
    /\ events[1].file = X_TMP /\ events[2].file = AB_TXT
    /\ events[3].file = X_TMP
    /\ decision.file = X_TMP
    /\ decision.last \in 1..2
    /\ Last(X_TMP) = 3
    /\ Last(AB_TXT) \in 1..3

\* C19 (as claimed): whatever configuration start-up accepts, nothing the
\* daemon wrote under the backup root is enumerated or mirrored again: every
\* candidate is a file of the watched tree as it was, and every directory
\* under the backup root is the backup-side directory of a folder of that
\* tree.
C19_NoSelfBackup ==
    /\ \A i \in 1..Len(yielded) :
          \A k \in 1..Len(yielded[i]) : yielded[i][k] \in fs.files
    /\ \A d \in DOMAIN backupDirs :
          \E s \in fs.dirs : d = StripSlashes(join_path(backup_dir, s))
    /\ \A i \in 1..Len(events) : events[i].file \in fs.files

===========================================================================
